---- MODULE Spec2Model ----
(***************************************************************************)
(* Model of cdptools/legistar_utils/events.py: the Matcher                 *)
(* (get_matching_legistar_event_by_minutes_match) and the Normalizer       *)
(* (parse_legistar_event_details).                                         *)
(*                                                                         *)
(* Python values are tagged records: a missing dictionary key is Absent,   *)
(* None is PyNone, a str is PyStr(<sequence of characters>), an int is     *)
(* PyInt(n) and a float is PyFloat(w, f), the number w + f/10.             *)
(* A call either returns (ok = TRUE) or raises (ok = FALSE, err = the      *)
(* exception's class).                                                     *)
(***************************************************************************)
EXTENDS Integers, Sequences, FiniteSets, TLC

VARIABLES
    minutes_items_provided,   \* the caller's list of target strings
    legistar_events,          \* the caller's list of candidate events
    legistar_event_details,   \* the caller's event handed to the Normalizer
    ignore_minutes_items,     \* the caller's ignore list
    default_ignore,           \* the list object of the default argument (line 168)
    fuzz,                     \* fuzzywuzzy.fuzz.token_set_ratio, a black box
    match,                    \* outcome of the last Matcher call
    parsed                    \* outcome of the last Normalizer call of each kind:
                              \* given (with the caller's ignore list) and
                              \* default (with the default argument)

vars == <<minutes_items_provided, legistar_events, legistar_event_details,
          ignore_minutes_items, default_ignore, fuzz, match, parsed>>

(***************************************************************************)
(* Python values                                                           *)
(***************************************************************************)
Absent == [t |-> "absent"]
PyNone == [t |-> "None"]
PyStr(s) == [t |-> "str", s |-> s]
PyInt(n) == [t |-> "int", n |-> n]
PyFloat(w, f) == [t |-> "float", w |-> w, f |-> f]

Returned(v) == [ok |-> TRUE, v |-> v]
Raised(e) == [ok |-> FALSE, err |-> e]
NoCall == [ok |-> FALSE, err |-> "no call yet"]

\* d[k] raises KeyError when the key is missing
Has(d, k) == d[k].t # "absent"

\* Python truthiness: None, "", 0 and 0.0 are falsy
Truthy(x) ==
    CASE x.t = "None" -> FALSE
      [] x.t = "str" -> x.s # <<>>
      [] x.t = "int" -> x.n # 0
      [] x.t = "float" -> x.w # 0 \/ x.f # 0
      [] OTHER -> FALSE

\* Python ==, as used by the `in` operator
PyEq(a, b) ==
    IF a.t \in {"int", "float"} /\ b.t \in {"int", "float"}
    THEN LET wa == IF a.t = "int" THEN a.n ELSE a.w
             fa == IF a.t = "int" THEN 0 ELSE a.f
             wb == IF b.t = "int" THEN b.n ELSE b.w
             fb == IF b.t = "int" THEN 0 ELSE b.f
         IN wa = wb /\ fa = fb
    ELSE a = b

PyIn(x, list) == \E k \in 1..Len(list) : PyEq(x, list[k])

Digits == {"0", "1", "2", "3", "4", "5", "6", "7", "8", "9"}
DigitVal == ("0" :> 0) @@ ("1" :> 1) @@ ("2" :> 2) @@ ("3" :> 3) @@ ("4" :> 4)
            @@ ("5" :> 5) @@ ("6" :> 6) @@ ("7" :> 7) @@ ("8" :> 8) @@ ("9" :> 9)

RECURSIVE DecimalValue(_)
DecimalValue(s) ==
    IF s = <<>> THEN 0
    ELSE 10 * DecimalValue(SubSeq(s, 1, Len(s) - 1)) + DigitVal[s[Len(s)]]

IsDigits(s) == s # <<>> /\ \A k \in 1..Len(s) : s[k] \in Digits

\* The builtin int(): an int is kept, a float is truncated, a str is parsed
\* as a decimal integer literal (ValueError otherwise), None is a TypeError.
int(x) ==
    CASE x.t = "int" -> Returned(PyInt(x.n))
      [] x.t = "float" -> Returned(PyInt(x.w))
      [] x.t = "str" -> IF IsDigits(x.s) THEN Returned(PyInt(DecimalValue(x.s)))
                        ELSE Raised("ValueError")
      [] OTHER -> Raised("TypeError")

LowerChar(c) ==
    CASE c = "A" -> "a" [] c = "B" -> "b" [] c = "M" -> "m" [] c = "T" -> "t"
      [] c = "U" -> "u" [] c = "P" -> "p" [] OTHER -> c

\* str.lower()
lower(s) == [k \in 1..Len(s) |-> LowerChar(s[k])]

(***************************************************************************)
(* The Matcher: get_matching_legistar_event_by_minutes_match               *)
(***************************************************************************)
\* AgendaMatchResults.selected_event: None, the empty dict {} or the
\* candidate object at position pos of the list handed in
SelectedNone == [kind |-> "None"]
SelectedEmpty == [kind |-> "empty dict"]
SelectedEvent(k, ev) == [kind |-> "event", pos |-> k, event |-> ev]

AgendaMatchResults(sel, scores, calls) ==
    [selected_event |-> sel, match_scores |-> scores, fuzz_calls |-> calls]

\* d[k] = v on a dict
DictSet(d, k, v) == [x \in DOMAIN d \cup {k} |-> IF x = k THEN v ELSE d[x]]

\* lines 135-136: a new list of the lower-cased targets
LowerAll(targets) == [k \in 1..Len(targets) |-> lower(targets[k])]

\* lines 144-149: the display names of one event's items
RECURSIVE EventMinutesItems(_, _)
EventMinutesItems(items, k) ==
    IF k > Len(items) THEN Returned(<<>>)
    ELSE LET ei == items[k]
             rest == EventMinutesItems(items, k + 1)
         IN IF ~Has(ei, "EventItemMatterName") THEN Raised("KeyError")
            ELSE IF Truthy(ei.EventItemMatterName)
            THEN IF rest.ok THEN Returned(<<ei.EventItemMatterName>> \o rest.v) ELSE rest
            ELSE IF ~Has(ei, "EventItemTitle") THEN Raised("KeyError")
            ELSE IF rest.ok THEN Returned(<<ei.EventItemTitle>> \o rest.v) ELSE rest

\* lines 158-160: the update of the running maximum and of the selection
UpdateSelected(acc, k, event, match_score) ==
    IF match_score > acc.max_score
    THEN [acc EXCEPT !.max_score = match_score, !.selected_event = SelectedEvent(k, event)]
    ELSE acc

\* a variant that records a score only when it beats the running maximum
RecordScoreIfBest(acc, event, match_score) ==
    IF match_score > acc.max_score
    THEN [acc EXCEPT !.scores = DictSet(acc.scores, event.EventId, match_score),
                     !.calls = acc.calls + 1]
    ELSE [acc EXCEPT !.calls = acc.calls + 1]

\* lines 154-155: the score is recorded under the event's identifier
RecordScore(acc, event, match_score) ==
    [acc EXCEPT !.scores = DictSet(acc.scores, event.EventId, match_score),
                !.calls = acc.calls + 1]

\* lines 142-160: the loop over the candidates, from position k on
RECURSIVE RankEvents(_, _, _, _)
RankEvents(targets, events, k, acc) ==
    IF k > Len(events)
    THEN Returned(AgendaMatchResults(acc.selected_event, acc.scores, acc.calls))
    ELSE LET event == events[k]
             names == EventMinutesItems(event.EventItems, 1)
         IN IF ~names.ok THEN names
            ELSE LET match_score == fuzz[<<targets, names.v>>]
                 IN IF ~Has(event, "EventId") THEN Raised("KeyError")
                    ELSE RankEvents(targets, events, k + 1,
                           UpdateSelected(RecordScore(acc, event, match_score),
                                          k, event, match_score))

\* a variant without the quick return: a sole candidate is ranked like any other
QuickReturnRanked(events) ==
    RankEvents(LowerAll(minutes_items_provided), events, 1,
               [max_score |-> 0, selected_event |-> SelectedNone,
                scores |-> <<>>, calls |-> 0])

\* line 131: the score given to a sole candidate
QuickScore == 100

\* lines 129-131: one candidate is returned without any comparison
QuickReturn(events) ==
    IF ~Has(events[1], "EventId") THEN Raised("KeyError")
    ELSE Returned(AgendaMatchResults(SelectedEvent(1, events[1]),
                                     DictSet(<<>>, events[1].EventId, QuickScore), 0))

\* lines 105-165
get_matching_legistar_event_by_minutes_match(targets, events) ==
    IF Len(events) = 1 THEN QuickReturn(events)
    ELSE IF Len(events) > 1
    THEN RankEvents(LowerAll(targets), events, 1,
                    [max_score |-> 0, selected_event |-> SelectedNone,
                     scores |-> <<>>, calls |-> 0])
    ELSE Returned(AgendaMatchResults(SelectedEmpty, <<>>, 0))

(***************************************************************************)
(* The Normalizer: parse_legistar_event_details                            *)
(***************************************************************************)
Min(S) == CHOOSE x \in S : \A y \in S : x <= y

\* str.split(c): the pieces of s between the occurrences of c
RECURSIVE Split(_, _)
Split(s, c) ==
    LET at == {k \in 1..Len(s) : s[k] = c}
    IN IF at = {} THEN <<s>>
       ELSE <<SubSeq(s, 1, Min(at) - 1)>> \o Split(SubSeq(s, Min(at) + 1, Len(s)), c)

\* "{}".format(x) of a str or of None (any other value gives a text
\* without ":", which the time pattern below rejects all the same)
Format(x) ==
    CASE x.t = "str" -> x.s
      [] x.t = "None" -> <<"N", "o", "n", "e">>
      [] OTHER -> <<"#">>

NumberIn(s, lo, hi) ==
    /\ IsDigits(s) /\ Len(s) <= 2
    /\ DecimalValue(s) >= lo /\ DecimalValue(s) <= hi

\* line 188: datetime.strptime(date + "T" + time, "%Y-%m-%dT%I:%M %p")
strptime(date, time) ==
    LET d == Split(date, "-")
        clock == Split(time, " ")
        hm == Split(clock[1], ":")
        ampm == lower(clock[2])
        conforms ==
            /\ Len(d) = 3 /\ IsDigits(d[1]) /\ Len(d[1]) = 4
            /\ NumberIn(d[2], 1, 12) /\ NumberIn(d[3], 1, 31)
            /\ \A k \in 1..Len(time) : time[k] # "T"
            /\ Len(clock) = 2 /\ Len(hm) = 2
            /\ NumberIn(hm[1], 1, 12) /\ NumberIn(hm[2], 0, 59)
            /\ ampm \in {<<"a", "m">>, <<"p", "m">>}
    IN IF ~conforms THEN Raised("ValueError")
       ELSE Returned([year |-> DecimalValue(d[1]), month |-> DecimalValue(d[2]),
                      day |-> DecimalValue(d[3]),
                      hour |-> (DecimalValue(hm[1]) % 12)
                               + (IF ampm = <<"p", "m">> THEN 12 ELSE 0),
                      minute |-> DecimalValue(hm[2])])

\* lines 185-188: the official datetime of the event
EventDatetime(event) ==
    IF ~Has(event, "EventDate") THEN Raised("KeyError")
    ELSE IF event.EventDate.t # "str" THEN Raised("AttributeError")
    ELSE IF ~Has(event, "EventTime") THEN Raised("KeyError")
    ELSE strptime(Split(event.EventDate.s, "T")[1], Format(event.EventTime))

\* lines 228-234: the attachments of one item, from position k on
RECURSIVE ParseAttachments(_, _)
ParseAttachments(atts, k) ==
    IF k > Len(atts) THEN Returned(<<>>)
    ELSE LET a == atts[k]
             id == int(a.MatterAttachmentId)
             rest == ParseAttachments(atts, k + 1)
         IN IF ~Has(a, "MatterAttachmentName") \/ ~Has(a, "MatterAttachmentHyperlink")
               \/ ~Has(a, "MatterAttachmentId")
            THEN Raised("KeyError")
            ELSE IF ~id.ok THEN id
            ELSE IF ~rest.ok THEN rest
            ELSE Returned(<<[name |-> a.MatterAttachmentName,
                             uri |-> a.MatterAttachmentHyperlink,
                             legistar_matter_attachment_id |-> id.v]>> \o rest.v)

\* line 248: the person's identifier as stored in a vote
PersonId(info) == info.PersonId

\* lines 240-250: one vote
ParseVote(vote_info) ==
    LET id == int(vote_info.VoteId)
        info == vote_info.PersonInfo
    IN IF ~Has(vote_info, "VoteValueName") \/ ~Has(vote_info, "VoteId")
       THEN Raised("KeyError")
       ELSE IF ~id.ok THEN id
       ELSE IF \E f \in {"PersonFullName", "PersonEmail", "PersonPhone",
                         "PersonWWW", "PersonId"} : ~Has(info, f)
       THEN Raised("KeyError")
       ELSE Returned([decision |-> vote_info.VoteValueName,
                      legistar_event_item_vote_id |-> id.v,
                      person |-> [full_name |-> info.PersonFullName,
                                  email |-> info.PersonEmail,
                                  phone |-> info.PersonPhone,
                                  website |-> info.PersonWWW,
                                  legistar_person_id |-> PersonId(info)]])

\* lines 239-250: the votes of one item, from position k on
RECURSIVE ParseVotes(_, _)
ParseVotes(infos, k) ==
    IF k > Len(infos) THEN Returned(<<>>)
    ELSE LET v == ParseVote(infos[k])
             rest == ParseVotes(infos, k + 1)
         IN IF ~v.ok THEN v
            ELSE IF ~rest.ok THEN rest
            ELSE Returned(<<v.v>> \o rest.v)

\* lines 194-197: the display name of an item
MinutesItemName(item) ==
    IF ~Has(item, "EventItemMatterName") THEN Raised("KeyError")
    ELSE IF Truthy(item.EventItemMatterName) THEN Returned(item.EventItemMatterName)
    ELSE IF ~Has(item, "EventItemTitle") THEN Raised("KeyError")
    ELSE Returned(item.EventItemTitle)

\* lines 200-203: the matter of an item
MinutesItemMatter(item) ==
    IF ~Has(item, "EventItemMatterName") THEN Raised("KeyError")
    ELSE IF Truthy(item.EventItemMatterName) THEN Returned(item.EventItemMatterName)
    ELSE IF ~Has(item, "EventItemMatterFile") THEN Raised("KeyError")
    ELSE Returned(item.EventItemMatterFile)

\* a variant that looks the matter up in the ignore list, not the name
NotIgnoredByMatter(name, matter, ignore) == ~PyIn(matter, ignore)

\* line 206: whether the item is kept
NotIgnored(name, matter, ignore) == ~PyIn(name, ignore)

\* lines 209-216: the index of an item
MinutesItemIndex(item) ==
    IF ~Has(item, "EventItemMinutesSequence") THEN Raised("KeyError")
    ELSE IF Truthy(item.EventItemMinutesSequence) THEN int(item.EventItemMinutesSequence)
    ELSE Returned(PyInt(-1))

\* lines 236-253: the "decision" entry of an item; Absent when the
\* assignment of line 251, inside the loop over the votes, never runs
MinutesItemDecision(item) ==
    IF Truthy(item.EventItemPassedFlagName)
    THEN IF Len(item.EventItemVoteInfo) > 0 THEN item.EventItemPassedFlagName ELSE Absent
    ELSE PyNone

\* lines 236-255: the votes of an item
MinutesItemVotes(item) ==
    IF Truthy(item.EventItemPassedFlagName)
    THEN ParseVotes(item.EventItemVoteInfo, 1)
    ELSE Returned(<<>>)

\* lines 193-259: one pass of the loop; skip = TRUE when the item is ignored
ParseItem(item, ignore) ==
    LET name == MinutesItemName(item)
        matter == MinutesItemMatter(item)
        index == MinutesItemIndex(item)
        id == int(item.EventItemId)
        atts == ParseAttachments(item.EventItemMatterAttachments, 1)
        votes == MinutesItemVotes(item)
    IN IF ~name.ok THEN name
       ELSE IF ~matter.ok THEN matter
       ELSE IF ~NotIgnored(name.v, matter.v, ignore) THEN Returned([skip |-> TRUE])
       ELSE IF ~index.ok THEN index
       ELSE IF ~Has(item, "EventItemId") THEN Raised("KeyError")
       ELSE IF ~id.ok THEN id
       ELSE IF ~atts.ok THEN atts
       ELSE IF ~Has(item, "EventItemPassedFlagName") THEN Raised("KeyError")
       ELSE IF ~votes.ok THEN votes
       ELSE Returned([skip |-> FALSE,
                      item |-> [name |-> name.v,
                                matter |-> matter.v,
                                index |-> index.v,
                                legistar_event_item_id |-> id.v,
                                decision |-> MinutesItemDecision(item),
                                votes |-> votes.v,
                                attachments |-> atts.v]])

\* lines 191-259: the loop over the event's items, from position k on
RECURSIVE ParseItems(_, _, _, _)
ParseItems(items, ignore, k, minutes_items) ==
    IF k > Len(items) THEN Returned(minutes_items)
    ELSE LET r == ParseItem(items[k], ignore)
         IN IF ~r.ok THEN r
            ELSE IF r.v.skip THEN ParseItems(items, ignore, k + 1, minutes_items)
            ELSE ParseItems(items, ignore, k + 1, Append(minutes_items, r.v.item))

\* a variant that places x before the items of equal key (an unstable sort)
InsertAtBefore(done, x) == Cardinality({k \in 1..Len(done) : done[k].index.n < x.index.n})

\* where sorted() places x among the already sorted items: after every
\* item whose key is not greater (the sort is stable)
InsertAt(done, x) == Cardinality({k \in 1..Len(done) : done[k].index.n <= x.index.n})

\* line 262: sorted(minutes_items, key=lambda i: i["index"])
RECURSIVE sorted(_)
sorted(items) ==
    IF items = <<>> THEN <<>>
    ELSE LET done == sorted(SubSeq(items, 1, Len(items) - 1))
             x == items[Len(items)]
             at == InsertAt(done, x)
         IN SubSeq(done, 1, at) \o <<x>> \o SubSeq(done, at + 1, Len(done))

\* lines 168-275
parse_legistar_event_details(event, ignore) ==
    LET event_dt == EventDatetime(event)
        minutes_items == ParseItems(event.EventItems, ignore, 1, <<>>)
        id == int(event.EventId)
    IN IF ~event_dt.ok THEN event_dt
       ELSE IF ~minutes_items.ok THEN minutes_items
       ELSE IF ~Has(event, "EventAgendaFile") \/ ~Has(event, "EventBodyName")
               \/ ~Has(event, "EventId")
       THEN Raised("KeyError")
       ELSE IF ~id.ok THEN id
       ELSE IF ~Has(event, "EventInSiteURL") \/ ~Has(event, "EventMinutesFile")
       THEN Raised("KeyError")
       ELSE Returned([agenda_file_uri |-> event.EventAgendaFile,
                      body |-> event.EventBodyName,
                      event_datetime |-> event_dt.v,
                      minutes_items |-> sorted(minutes_items.v),
                      legistar_event_id |-> id.v,
                      legistar_event_link |-> event.EventInSiteURL,
                      minutes_file_uri |-> event.EventMinutesFile])

(***************************************************************************)
(* The calls: what each leaves behind in the caller's objects              *)
(***************************************************************************)
\* lines 135-136: the lower-cased targets are a new list bound to the
\* local name; the caller's list object is not written
TargetsAfterMatch(targets) == targets

\* a variant that remembers the first item's title in the list it was given
IgnoreRemembers(ignore, event) ==
    IF event.EventItems = <<>> \/ PyIn(event.EventItems[1].EventItemTitle, ignore)
    THEN ignore
    ELSE Append(ignore, event.EventItems[1].EventItemTitle)

\* lines 168-206: the ignore list (the caller's, or the default argument's
\* list object) is only read, by `not in`
IgnoreAfterParse(ignore, event) == ignore

(***************************************************************************)
(* Inputs                                                                  *)
(***************************************************************************)
MaxCandidates == 2
MaxItems == 3

SeqsUpTo(S, n) == UNION {[1..k -> S] : k \in 0..n}

NameM == PyStr(<<"M">>)
NameT == PyStr(<<"T">>)
FileF == PyStr(<<"F">>)
FlagP == PyStr(<<"P">>)

GoodDate == PyStr(<<"2", "0", "1", "9", "-", "0", "3", "-", "0", "4", "T",
                    "0", "0", ":", "0", "0", ":", "0", "0">>)
GoodTime == PyStr(<<"3", ":", "0", "0", " ", "P", "M">>)
BadTime == PyStr(<<"1", "5", ":", "0", "0">>)

RawPerson(pid) ==
    [PersonId |-> pid, PersonFullName |-> PyStr(<<"A">>), PersonEmail |-> PyNone,
     PersonPhone |-> PyNone, PersonWWW |-> PyNone]

RawVote(vid, pid) ==
    [VoteId |-> vid, VoteValueName |-> PyStr(<<"Y">>), VotePersonId |-> pid,
     PersonInfo |-> RawPerson(pid)]

RawAttachment(aid) ==
    [MatterAttachmentId |-> aid, MatterAttachmentName |-> PyStr(<<"a">>),
     MatterAttachmentHyperlink |-> PyStr(<<"u">>)]

RawItem(id, matter_name, title, matter_file, sequence, flag, atts, votes) ==
    [EventItemId |-> id, EventItemMatterName |-> matter_name, EventItemTitle |-> title,
     EventItemMatterFile |-> matter_file, EventItemMinutesSequence |-> sequence,
     EventItemPassedFlagName |-> flag, EventItemMatterAttachments |-> atts,
     EventItemVoteInfo |-> votes]

RawEvent(id, time, items) ==
    [EventId |-> id, EventDate |-> GoodDate, EventTime |-> time,
     EventAgendaFile |-> PyStr(<<"g">>), EventMinutesFile |-> PyNone,
     EventBodyName |-> PyStr(<<"B">>), EventInSiteURL |-> PyStr(<<"l">>),
     EventItems |-> items]

\* --- the Matcher's inputs: candidates that differ in identifier and in
\* the presence of the name fields
TargetLists == {<< <<"B", "u">> >>, << <<"b", "u">> >>}

MatcherNames == {<<NameM, NameT>>, <<PyNone, NameT>>, <<Absent, NameT>>, <<PyNone, Absent>>}

MatcherEvents ==
    {RawEvent(PyInt(id), GoodTime,
              <<RawItem(PyInt(1), n[1], n[2], FileF, PyInt(1), PyNone, <<>>, <<>>)>>) :
        id \in {1, 2}, n \in MatcherNames}

Scores == {0, 50, 100}

FuzzDomain ==
    {<<LowerAll(t), EventMinutesItems(e.EventItems, 1).v>> :
        t \in TargetLists, e \in {x \in MatcherEvents : EventMinutesItems(x.EventItems, 1).ok}}

DefaultEvent ==
    RawEvent(PyInt(1), GoodTime,
             <<RawItem(PyInt(1), NameM, NameT, FileF, PyInt(1), PyNone, <<>>, <<>>)>>)

\* --- the Normalizer's inputs (a): the order of the items and the ignore list
OrderShapes == {PyNone, NameM} \X {PyNone, PyInt(1), PyStr(<<"2">>)}

OrderEvents ==
    {RawEvent(PyInt(1), GoodTime,
              [k \in 1..n |-> RawItem(PyInt(k), f[k][1], NameT, FileF, f[k][2], PyNone,
                                      <<>>, <<>>)]) :
        n \in 0..MaxItems, f \in [1..MaxItems -> OrderShapes]}

IgnoreLists == {<<>>, <<NameM>>, <<NameT>>}

\* --- (b): one item whose optional fields are missing, falsy or set
ShapeEvents ==
    {RawEvent(PyInt(1), time,
              <<RawItem(PyInt(5), mn, ti, mf, sq, fl, <<>>, vs)>>) :
        time \in {GoodTime, BadTime},
        mn \in {Absent, PyNone, NameM}, ti \in {Absent, NameT}, mf \in {Absent, FileF},
        sq \in {Absent, PyNone, PyInt(0), PyInt(2)}, fl \in {Absent, PyNone, FlagP},
        vs \in {<<>>, <<RawVote(PyInt(8), PyInt(9))>>}}

\* --- (c): identifiers supplied as int, str or float
IdForms == {PyInt(7), PyStr(<<"7">>), PyStr(<<"7", ".", "5">>), PyFloat(7, 5)}

IdEvents ==
    {RawEvent(ids[1], GoodTime,
              <<RawItem(ids[2], NameM, NameT, FileF, PyInt(1), FlagP,
                        <<RawAttachment(ids[3])>>, <<RawVote(ids[4], ids[5])>>)>>) :
        ids \in [1..5 -> IdForms]}

InitMatcher ==
    /\ minutes_items_provided \in TargetLists
    /\ legistar_events \in SeqsUpTo(MatcherEvents, MaxCandidates)
    /\ fuzz \in [FuzzDomain -> Scores]
    /\ legistar_event_details = DefaultEvent
    /\ ignore_minutes_items = <<>>

InitNormalizer ==
    /\ minutes_items_provided = << <<"B", "u">> >>
    /\ fuzz = [x \in FuzzDomain |-> 0]
    /\ \/ legistar_event_details \in OrderEvents /\ ignore_minutes_items \in IgnoreLists
       \/ legistar_event_details \in ShapeEvents /\ ignore_minutes_items = <<>>
       \/ legistar_event_details \in IdEvents /\ ignore_minutes_items = <<>>
    /\ legistar_events = <<legistar_event_details>>

Init ==
    /\ InitMatcher \/ InitNormalizer
    /\ default_ignore = <<>>
    /\ match = NoCall
    /\ parsed = [given |-> NoCall, default |-> NoCall]

(***************************************************************************)
(* Actions: one per call                                                   *)
(***************************************************************************)
Match ==
    /\ match' = get_matching_legistar_event_by_minutes_match(minutes_items_provided,
                                                             legistar_events)
    /\ minutes_items_provided' = TargetsAfterMatch(minutes_items_provided)
    /\ UNCHANGED <<legistar_events, legistar_event_details, ignore_minutes_items,
                   default_ignore, fuzz, parsed>>

\* parse_legistar_event_details(event, ignore_minutes_items)
Parse ==
    /\ parsed' = [parsed EXCEPT !.given =
                      parse_legistar_event_details(legistar_event_details,
                                                   ignore_minutes_items)]
    /\ ignore_minutes_items' = IgnoreAfterParse(ignore_minutes_items, legistar_event_details)
    /\ UNCHANGED <<minutes_items_provided, legistar_events, legistar_event_details,
                   default_ignore, fuzz, match>>

\* parse_legistar_event_details(event): the ignore list is the default's
ParseDefault ==
    /\ parsed' = [parsed EXCEPT !.default =
                      parse_legistar_event_details(legistar_event_details,
                                                   default_ignore)]
    /\ default_ignore' = IgnoreAfterParse(default_ignore, legistar_event_details)
    /\ UNCHANGED <<minutes_items_provided, legistar_events, legistar_event_details,
                   ignore_minutes_items, fuzz, match>>

Next == Match \/ Parse \/ ParseDefault

Spec == Init /\ [][Next]_vars

(***************************************************************************)
(* Properties                                                              *)
(***************************************************************************)
Range(f) == {f[k] : k \in DOMAIN f}
Max(S) == CHOOSE x \in S : \A y \in S : x >= y

\* the similarity score the black box gives candidate k for the caller's targets
ScoreOf(k) ==
    fuzz[<<LowerAll(minutes_items_provided),
           EventMinutesItems(legistar_events[k].EventItems, 1).v>>]

\* the display name of a raw item: the matter name if truthy, else the title
ResolvedName(item) ==
    IF Truthy(item.EventItemMatterName) THEN item.EventItemMatterName
    ELSE item.EventItemTitle

\* the Normalizer calls made so far that returned, and the ignore list of each
ParseCalls == {c \in {"given", "default"} : parsed[c].ok}
IgnoreUsed(c) == IF c = "given" THEN ignore_minutes_items ELSE default_ignore
MinutesItems(c) == parsed[c].v.minutes_items

\* the positions of the raw items that a minutes item may come from
SourcePositions(mi) ==
    {k \in 1..Len(legistar_event_details.EventItems) :
        LET id == int(legistar_event_details.EventItems[k].EventItemId)
        IN id.ok /\ id.v = mi.legistar_event_item_id}
SourcePos(mi) == CHOOSE k \in SourcePositions(mi) : TRUE
SourceItem(mi) == legistar_event_details.EventItems[SourcePos(mi)]

\* C1: with two or more candidates the selected event is the first
\* candidate, in input order, whose score is the maximum over all
\* candidates; it is never None.  (Stated for candidates with pairwise
\* distinct identifiers, the case every candidate list of the claim includes.)
C1_SelectsFirstMaximum ==
    (/\ match.ok /\ Len(legistar_events) >= 2
     /\ Cardinality({legistar_events[k].EventId : k \in 1..Len(legistar_events)})
          = Len(legistar_events)) =>
        LET best == Max({ScoreOf(k) : k \in 1..Len(legistar_events)})
            first == Min({k \in 1..Len(legistar_events) : ScoreOf(k) = best})
        IN match.v.selected_event = SelectedEvent(first, legistar_events[first])

\* C2: an emitted item's decision is null exactly when the source item's
\* passed flag is falsy, and is the flag's text whenever the flag is
\* truthy, whatever the number of raw votes; a null decision comes with an
\* empty list of votes.
C2_DecisionFollowsPassedFlag ==
    \A c \in ParseCalls : \A i \in 1..Len(MinutesItems(c)) :
        LET mi == MinutesItems(c)[i]
            flag == SourceItem(mi).EventItemPassedFlagName
        IN /\ (mi.decision = PyNone) <=> ~Truthy(flag)
           /\ Truthy(flag) => mi.decision = flag
           /\ (mi.decision = PyNone) => mi.votes = <<>>

\* C3: the emitted items are in non-decreasing order of index, and items
\* of equal index keep the relative order of their source items.
C3_SortedAndStable ==
    \A c \in ParseCalls : \A i, j \in 1..Len(MinutesItems(c)) :
        i < j =>
            LET a == MinutesItems(c)[i]
                b == MinutesItems(c)[j]
            IN /\ a.index.n <= b.index.n
               /\ a.index.n = b.index.n => SourcePos(a) < SourcePos(b)

C3_Witness ==
    \E c \in ParseCalls : \E i, j \in 1..Len(MinutesItems(c)) :
        LET a == MinutesItems(c)[i]
            b == MinutesItems(c)[j]
        IN /\ i < j /\ a.index.n = b.index.n /\ a.index.n = -1
           /\ \E k \in 1..Len(MinutesItems(c)) :
                /\ k > j
                /\ SourcePos(MinutesItems(c)[k]) < SourcePos(a)

\* the positions of the raw items whose display name is not in the list
KeptPositions(ignore) ==
    {k \in 1..Len(legistar_event_details.EventItems) :
        ~PyIn(ResolvedName(legistar_event_details.EventItems[k]), ignore)}

\* the event without the items whose display name is in the list
WithoutIgnored(event, ignore) ==
    [event EXCEPT !.EventItems =
        SelectSeq(event.EventItems, LAMBDA it : ~PyIn(ResolvedName(it), ignore))]

\* C4: exactly one minutes item is emitted for each raw item whose
\* display name is not in the ignore list and none for the others, and
\* the output is the output for the event with the ignored items removed
\* beforehand.
C4_IgnoredItemsDropped ==
    \A c \in ParseCalls :
        /\ Len(MinutesItems(c)) = Cardinality(KeptPositions(IgnoreUsed(c)))
        /\ \A k \in KeptPositions(IgnoreUsed(c)) :
             Cardinality({i \in 1..Len(MinutesItems(c)) :
                            k \in SourcePositions(MinutesItems(c)[i])}) = 1
        /\ \A i \in 1..Len(MinutesItems(c)) :
             /\ ~PyIn(MinutesItems(c)[i].name, IgnoreUsed(c))
             /\ SourcePositions(MinutesItems(c)[i]) \subseteq KeptPositions(IgnoreUsed(c))
        /\ parsed[c] = parse_legistar_event_details(
                           WithoutIgnored(legistar_event_details, IgnoreUsed(c)),
                           IgnoreUsed(c))

C4_Witness ==
    /\ "given" \in ParseCalls
    /\ \E k \in 1..Len(legistar_event_details.EventItems) :
         /\ k \notin KeptPositions(ignore_minutes_items)
         /\ \E later \in KeptPositions(ignore_minutes_items) : later > k
         /\ \E earlier \in KeptPositions(ignore_minutes_items) : earlier < k

\* C5: every identifier of a returned Canonical Event is an integer: the
\* event's, each item's, each attachment's, each vote's and each vote's
\* person's.
C5_IdentifiersAreIntegers ==
    \A c \in ParseCalls :
        /\ parsed[c].v.legistar_event_id.t = "int"
        /\ \A i \in 1..Len(MinutesItems(c)) :
             LET mi == MinutesItems(c)[i]
             IN /\ mi.legistar_event_item_id.t = "int"
                /\ \A a \in Range(mi.attachments) : a.legistar_matter_attachment_id.t = "int"
                /\ \A v \in Range(mi.votes) :
                     /\ v.legistar_event_item_vote_id.t = "int"
                     /\ v.person.legistar_person_id.t = "int"

CandidateIds == {legistar_events[k].EventId : k \in 1..Len(legistar_events)}

\* C6 as stated: for a non-empty candidate list the score map has as many
\* entries as there are candidates and every candidate's identifier is a key.
C6_OneEntryPerCandidate ==
    (match.ok /\ Len(legistar_events) >= 1) =>
        /\ Cardinality(DOMAIN match.v.match_scores) = Len(legistar_events)
        /\ CandidateIds \subseteq DOMAIN match.v.match_scores

\* C6 as amended: for a non-empty candidate list the keys of the score map
\* are exactly the candidates' identifiers, whatever the scores; there are
\* as many entries as candidates when the identifiers are pairwise distinct.
C6_OneEntryPerIdentifier ==
    (match.ok /\ Len(legistar_events) >= 1) =>
        /\ DOMAIN match.v.match_scores = CandidateIds
        /\ Cardinality(CandidateIds) = Len(legistar_events)
             => Cardinality(DOMAIN match.v.match_scores) = Len(legistar_events)

C6_Witness ==
    /\ match.ok /\ Len(legistar_events) = 2
    /\ Cardinality(CandidateIds) = 2
    /\ ScoreOf(1) = 100 /\ ScoreOf(2) = 0

\* C7: an otherwise well-formed item whose matter name, minutes sequence
\* and passed flag are each absent or falsy is normalized without error
\* into name = title, index = -1, decision = null, votes = []; a truthy
\* minutes sequence gives its integer value as the index.
C7_FallbacksNeverFail ==
    LET event == legistar_event_details
        item == event.EventItems[1]
        wellFormedOtherwise ==
            /\ event.EventTime = GoodTime
            /\ Len(event.EventItems) = 1
            /\ Has(item, "EventItemTitle") /\ Has(item, "EventItemMatterFile")
            /\ int(item.EventItemId).ok
            /\ ~Truthy(item.EventItemMatterName)
            /\ ~Truthy(item.EventItemPassedFlagName)
    IN (parsed.default # NoCall /\ wellFormedOtherwise) =>
          /\ ~Truthy(item.EventItemMinutesSequence) =>
                /\ parsed.default.ok
                /\ Len(parsed.default.v.minutes_items) = 1
                /\ parsed.default.v.minutes_items[1].name = item.EventItemTitle
                /\ parsed.default.v.minutes_items[1].index = PyInt(-1)
                /\ parsed.default.v.minutes_items[1].decision = PyNone
                /\ parsed.default.v.minutes_items[1].votes = <<>>
          /\ (Truthy(item.EventItemMinutesSequence)
              /\ int(item.EventItemMinutesSequence).ok) =>
                /\ parsed.default.ok
                /\ parsed.default.v.minutes_items[1].index
                     = int(item.EventItemMinutesSequence).v

\* C8: the Matcher never raises, whatever the targets and the candidates,
\* also when event items lack the matter name or the title.
C8_MatcherNeverRaises == (match # NoCall) => match.ok

\* C9: a sole candidate is returned as selected with the score map
\* {its identifier: 100} and without a call of the similarity capability,
\* whatever the targets and the candidate's items; with two or more
\* candidates the capability is called once per candidate.
C9_SoleCandidate ==
    (match # NoCall) =>
        /\ Len(legistar_events) = 1 =>
             /\ match.ok
             /\ match.v.selected_event = SelectedEvent(1, legistar_events[1])
             /\ match.v.match_scores = (legistar_events[1].EventId :> 100)
             /\ match.v.fuzz_calls = 0
        /\ (Len(legistar_events) >= 2 /\ match.ok) =>
             match.v.fuzz_calls = Len(legistar_events)

C9_Witness ==
    /\ match.ok /\ Len(legistar_events) = 1
    /\ ~Has(legistar_events[1].EventItems[1], "EventItemMatterName")
    /\ minutes_items_provided # LowerAll(minutes_items_provided)

====
